---- MODULE Spec2Model ----
(***************************************************************************)
(* Model of gp_intake_checker.py: the orchestration loop check_practices   *)
(* with its parser/validator (_parse_checks), fallback record, field       *)
(* normalisation and time stamp (_utc_now_iso).                            *)
(*                                                                         *)
(* Strings that are only compared are TLA+ strings.  A contact_email is a  *)
(* sequence of one-character strings, so that str.strip() is computed.     *)
(* Optional[str] is None or Str(s).                                        *)
(***************************************************************************)
EXTENDS Integers, Sequences, FiniteSets, TLC

VARIABLES pc, i, results, payload, synthesized, now, start, sessions, runs, returned

vars == <<pc, i, results, payload, synthesized, now, start, sessions, runs, returned>>

\* ---------------------------------------------------------------- bounds

\* The clock is read as a non-decreasing integer, capped at MaxClock.
MaxClock == 2
\* Most whitespace characters the agent puts on either side of an email.
MaxPad == 1
\* Most elements of the array the agent returns.
MaxItems == 2

\* ------------------------------------------------------- optional values

None == [tag |-> "None"]

Str(s) == [tag |-> "str", s |-> s]

\* ------------------------------------------------------------ data model

\* Status = Literal["Accepting", "Not Accepting", "Unclear"]
Status == {"Accepting", "Not Accepting", "Unclear"}

\* The configured list of check_practices (the second name is written with
\* a typewriter apostrophe here).
practices ==
    << [practice |-> "Ark Medical Centre (New patient enquiry)",
        url |-> "https://arkmedical.ie/"],
       [practice |-> "Mercer's Medical Centre",
        url |-> "https://www.mercersmedicalcentre.com/"],
       [practice |-> "Sirona Medical (Practice policies)",
        url |-> "https://www.sironamedical.ie/"],
       [practice |-> "GPdoc Medical Centre",
        url |-> "https://www.gpdoc.ie/"] >>

\* class PracticeCheck: the four required fields and the two optional ones.
RequiredFields == {"practice", "url", "status", "evidence"}

\* ------------------------------------------------------------- str.strip

\* str.isspace for the characters of the model.
IsSpace(c) == c \in {" ", "\t", "\n"}

RECURSIVE LStrip(_)
LStrip(s) == IF s # <<>> /\ IsSpace(Head(s)) THEN LStrip(Tail(s)) ELSE s

RECURSIVE RStrip(_)
RStrip(s) ==
    IF s # <<>> /\ IsSpace(s[Len(s)]) THEN RStrip(SubSeq(s, 1, Len(s) - 1)) ELSE s

\* s.strip()
Strip(s) == RStrip(LStrip(s))

\* ------------------------------------------------------------ time stamp

\* datetime.now(timezone.utc).isoformat(): the instant with a numeric offset.
IsoFormat(t) == [instant |-> t, offset |-> "+00:00"]

\* .replace("+00:00", "Z")
ReplaceOffset(ts) ==
    IF ts.offset = "+00:00" THEN [ts EXCEPT !.offset = "Z"] ELSE ts

\* _utc_now_iso(), the clock reading t
UtcNowIso(t) == ReplaceOffset(IsoFormat(t))

\* ---------------------------------------------------- the agent's output

(* history.final_result() is None, or a text.  A text is modelled by what  *)
(* JSON decoding makes of it: kind "empty" is the text "", "notjson" a     *)
(* text that is no JSON document, "notarray" a JSON document that is not   *)
(* an array, and "array" a JSON array of objects, each object a function   *)
(* from the keys it carries to their values.                               *)
NullResult == [kind |-> "null", items |-> <<>>]

EmptyText == [kind |-> "empty", items |-> <<>>]

NotJson == [kind |-> "notjson", items |-> <<>>]

NotArray == [kind |-> "notarray", items |-> <<>>]

Array(items) == [kind |-> "array", items |-> items]

\* No agent run has produced a result yet.
NoPayload == [kind |-> "none", items |-> <<>>]

\* n blanks
RECURSIVE Pad(_)
Pad(n) == IF n = 0 THEN <<>> ELSE <<" ">> \o Pad(n - 1)

\* The address the agent found, or nothing.
Cores == {<<>>, <<"a", "@", "b">>}

\* The email texts the agent may return: an address or nothing, padded.
EmailStrings ==
    {Pad(l) \o core \o Pad(r) : l \in 0..MaxPad, r \in 0..MaxPad, core \in Cores}

EmailValues == {None} \cup {Str(s) : s \in EmailStrings}

\* The status strings the agent may return: the three of the task text of
\* _build_task, and two others.
StatusStrings == Status \cup {"NotAccepting", "Pending"}

\* What the agent echoes for the fields the task text pre-fills: the
\* configured values with checked_at null, or values of its own.
Echoes(item) ==
    { [practice |-> item.practice, url |-> item.url, checked_at |-> None],
      [practice |-> "Another Practice", url |-> "https://other.example/",
       checked_at |-> Str(IsoFormat(-1))] }

\* The evidence the agent returns, as the task text asks: a snippet of the
\* page, or "" with status Unclear when it found none.
EvidenceFor(st) == IF st = "Unclear" THEN {"", "snippet"} ELSE {"snippet"}

\* Objects carrying all six keys, with a status of the Literal.
FullObjects(item) ==
    UNION { { [practice |-> e.practice, url |-> e.url, status |-> st,
               evidence |-> ev, contact_email |-> em,
               checked_at |-> e.checked_at] :
                e \in Echoes(item), ev \in EvidenceFor(st), em \in EmailValues }
            : st \in Status }

\* Objects without the two optional keys, with any status string.
ShortObjects(item) ==
    { [practice |-> item.practice, url |-> item.url, status |-> st,
       evidence |-> "snippet"] : st \in StatusStrings }

\* Objects without a required key.
BrokenObjects(item) ==
    { [practice |-> item.practice, url |-> item.url, status |-> "Accepting"],
      [practice |-> item.practice, url |-> item.url, evidence |-> "snippet"],
      [url |-> item.url, status |-> "Unclear", evidence |-> ""],
      [practice |-> item.practice, status |-> "Unclear", evidence |-> ""] }

Objects(item) == FullObjects(item) \cup ShortObjects(item) \cup BrokenObjects(item)

\* What may follow the first element of the array: two valid objects, and
\* one with a status outside the Literal.
ExtraObjects ==
    { [practice |-> "Extra Practice", url |-> "https://extra.example/",
       status |-> "Not Accepting", evidence |-> "extra",
       contact_email |-> Str(<<"x">>), checked_at |-> None],
      [practice |-> "Extra Practice", url |-> "https://extra.example/",
       status |-> "Accepting", evidence |-> "extra",
       contact_email |-> Str(<<"x">>), checked_at |-> None],
      [practice |-> "Extra Practice", url |-> "https://extra.example/",
       status |-> "Pending", evidence |-> "extra"] }

\* The sequences over S of 1 to n elements.
RECURSIVE SeqsUpTo(_, _)
SeqsUpTo(S, n) ==
    IF n <= 0 THEN {}
    ELSE LET shorter == SeqsUpTo(S, n - 1)
         IN  {<<x>> : x \in S} \cup {Append(q, x) : q \in shorter, x \in S}

\* The first elements of the arrays of several elements.
LeadObjects(item) ==
    ShortObjects(item)
    \cup { [practice |-> item.practice, url |-> item.url, status |-> "Accepting",
            evidence |-> "snippet", contact_email |-> Str(<<" ", "a", "@", "b">>),
            checked_at |-> None] }

\* Every final result the agent may produce for item.
AgentOutputs(item) ==
    {NullResult, EmptyText, NotJson, NotArray, Array(<<>>)}
    \cup {Array(<<o>>) : o \in Objects(item)}
    \cup {Array(<<o>> \o rest) :
            o \in LeadObjects(item), rest \in SeqsUpTo(ExtraObjects, MaxItems - 1)}

\* ------------------------------------------------------ parser, validator

\* ValidObject with status a plain str.
ValidObject_AnyStatus(o) == RequiredFields \subseteq DOMAIN o

\* PracticeCheck validation of one object: the required keys are there and
\* status is one of the Literal's strings.
ValidObject(o) == RequiredFields \subseteq DOMAIN o /\ o.status \in Status

\* The PracticeCheck built from a valid object: an optional key that is not
\* there takes its default, None.
ModelValidate(o) ==
    [practice |-> o.practice, url |-> o.url, status |-> o.status,
     evidence |-> o.evidence,
     contact_email |->
        IF "contact_email" \in DOMAIN o THEN o.contact_email ELSE None,
     checked_at |-> IF "checked_at" \in DOMAIN o THEN o.checked_at ELSE None]

\* ParseChecks that drops what does not validate instead of raising.
ParseChecks_Lenient(text) ==
    LET good == IF text.kind = "array" THEN SelectSeq(text.items, ValidObject) ELSE <<>>
    IN  [ok |-> TRUE, root |-> [k \in 1..Len(good) |-> ModelValidate(good[k])]]

\* _parse_checks(text): PracticeChecks.model_validate_json(text).root, or the
\* validation error (ok = FALSE) when the text is no JSON array or one of its
\* elements is not valid.
ParseChecks(text) ==
    IF text.kind = "array" /\ \A k \in 1..Len(text.items) : ValidObject(text.items[k])
    THEN [ok |-> TRUE,
          root |-> [k \in 1..Len(text.items) |-> ModelValidate(text.items[k])]]
    ELSE [ok |-> FALSE, root |-> <<>>]

\* FinalResultOrEmpty with `is None` for the truth test: "" stays "".
FinalResultOrEmpty_NoneOnly(p) == IF p.kind = "null" THEN Array(<<>>) ELSE p

\* history.final_result() or "[]": None and "" are falsy.
FinalResultOrEmpty(p) == IF p.kind \in {"null", "empty"} THEN Array(<<>>) ELSE p

\* The record built when the parsed list is empty.
Fallback(item) ==
    [practice |-> item.practice, url |-> item.url, status |-> "Unclear",
     evidence |-> "", contact_email |-> None, checked_at |-> None]

\* `if not parsed: parsed = [PracticeCheck(...)]`
OrFallback(parsed, item) == IF parsed = <<>> THEN <<Fallback(item)>> ELSE parsed

\* FirstOf that takes parsed[-1].
FirstOf_Last(parsed) == parsed[Len(parsed)]

\* check = parsed[0]
FirstOf(parsed) == parsed[1]

\* ------------------------------------------------------------ normaliser

\* `if check.contact_email` : None and "" are falsy.
Truthy(email) == email # None /\ email.s # <<>>

\* StripOrNone without the `or None`.
StripOrNone_KeepsBlank(email) == Str(Strip(email.s))

\* check.contact_email.strip() or None
StripOrNone(email) ==
    LET t == Strip(email.s) IN IF t = <<>> THEN None ELSE Str(t)

\* NormalizeEmail without the test of the status.
NormalizeEmail_AnyStatus(check) ==
    IF Truthy(check.contact_email) THEN StripOrNone(check.contact_email)
    ELSE check.contact_email

\* The contact_email after the if/elif on the status.
NormalizeEmail(check) ==
    IF check.status # "Accepting" THEN None
    ELSE IF Truthy(check.contact_email) THEN StripOrNone(check.contact_email)
    ELSE check.contact_email

\* Normalize that stamps only a record with no checked_at.
Normalize_StampsIfAbsent(check, item, t) ==
    [practice |-> item.practice, url |-> item.url, status |-> check.status,
     evidence |-> check.evidence, contact_email |-> NormalizeEmail(check),
     checked_at |-> IF check.checked_at = None THEN Str(UtcNowIso(t))
                    ELSE check.checked_at]

\* Normalize without the overwrite of url.
Normalize_KeepsUrl(check, item, t) ==
    [practice |-> item.practice, url |-> check.url, status |-> check.status,
     evidence |-> check.evidence, contact_email |-> NormalizeEmail(check),
     checked_at |-> Str(UtcNowIso(t))]

\* The record appended for item, from the first parsed record, at clock
\* reading t.
Normalize(check, item, t) ==
    [practice |-> item.practice, url |-> item.url, status |-> check.status,
     evidence |-> check.evidence, contact_email |-> NormalizeEmail(check),
     checked_at |-> Str(UtcNowIso(t))]

\* The record of one pass: the first of the parsed records, or the fallback,
\* normalised.
Checked(parsed, item, t) == Normalize(FirstOf(OrFallback(parsed, item)), item, t)

\* Emit with the records of status Unclear filtered out.
Emit_SkipsUnclear(res, check) ==
    IF check.status = "Unclear" THEN res ELSE Append(res, check)

\* results.append(check)
Emit(res, check) == Append(res, check)

\* ----------------------------------------------------------- the machine

\* What check_practices has returned.
Returned(list) == [tag |-> "list", list |-> list]

Init ==
    /\ pc = "loop"
    /\ i = 0
    /\ results = <<>>
    /\ payload = NoPayload
    /\ synthesized = FALSE
    /\ now = 0
    /\ start = 0
    /\ sessions = {}
    /\ runs = {}
    /\ returned = None

\* The clock readings after an agent run that began at reading t.
Later(t) == {u \in t..(t + 1) : u <= MaxClock}

\* The head of a pass of the loop, up to the await: the session is made,
\* the task built, the agent made and its run started.
StartRun ==
    /\ pc = "loop"
    /\ i < Len(practices)
    /\ sessions' = sessions \cup {i + 1}
    /\ runs' = runs \cup {i + 1}
    /\ payload' = NoPayload
    /\ synthesized' = FALSE
    /\ pc' = "await"
    /\ UNCHANGED <<i, results, now, start, returned>>

\* Browser(...) raises: no session, no agent run.
BrowserFails ==
    /\ pc = "loop"
    /\ i < Len(practices)
    /\ payload' = NoPayload
    /\ synthesized' = FALSE
    /\ pc' = "failed"
    /\ UNCHANGED <<i, results, now, start, sessions, runs, returned>>

\* agent.run(...) raises.
AgentRunFails ==
    /\ pc = "await"
    /\ \E t \in Later(now) : now' = t
    /\ pc' = "failed"
    /\ UNCHANGED <<i, results, payload, synthesized, start, sessions, runs, returned>>

\* The rest of the pass once the run has ended with final result p: the
\* parse, the fallback, the normalisation and the append.
CheckPractice ==
    /\ pc = "await"
    /\ \E p \in AgentOutputs(practices[i + 1]), t \in Later(now) :
        LET item == practices[i + 1]
            parse == ParseChecks(FinalResultOrEmpty(p))
        IN  /\ parse.ok
            /\ payload' = p
            /\ now' = t
            /\ synthesized' = (parse.root = <<>>)
            /\ results' = Emit(results, Checked(parse.root, item, t))
    /\ i' = i + 1
    /\ pc' = "loop"
    /\ UNCHANGED <<start, sessions, runs, returned>>

\* The rest of the pass when _parse_checks raises on final result p.
ValidationFails ==
    /\ pc = "await"
    /\ \E p \in AgentOutputs(practices[i + 1]), t \in Later(now) :
        /\ ~ParseChecks(FinalResultOrEmpty(p)).ok
        /\ payload' = p
        /\ now' = t
    /\ pc' = "failed"
    /\ UNCHANGED <<i, results, synthesized, start, sessions, runs, returned>>

\* return results
Return ==
    /\ pc = "loop"
    /\ i = Len(practices)
    /\ returned' = Returned(results)
    /\ pc' = "done"
    /\ UNCHANGED <<i, results, payload, synthesized, now, start, sessions, runs>>

Next ==
    \/ StartRun
    \/ BrowserFails
    \/ AgentRunFails
    \/ CheckPractice
    \/ ValidationFails
    \/ Return

Spec == Init /\ [][Next]_vars

\* ------------------------------------------------- words of the claims

\* A record has been appended in the pass that just ended, for the final
\* result held in payload.
Appended == pc \in {"loop", "done"} /\ payload # NoPayload

\* The record appended last, and the configured item it was made for.
LastRecord == results[Len(results)]

LastItem == practices[Len(results)]

\* The pass that just ended took its record from the agent's array.
FromArray == Appended /\ payload.kind = "array" /\ payload.items # <<>>

\* The first object of the agent's array, and the contact_email it carries
\* (a key that is not there is null).
Raw == payload.items[1]

RawEmail == IF "contact_email" \in DOMAIN Raw THEN Raw.contact_email ELSE None

\* The agent produced nothing, or the empty array.
EmptyResult ==
    payload.kind \in {"null", "empty"} \/ (payload.kind = "array" /\ payload.items = <<>>)

\* The instant of the checked_at of the k-th record.
InstantOf(k) == results[k].checked_at.s.instant

\* s is a text with no character that is not a blank.
AllBlank(s) == \A k \in 1..Len(s) : s[k] \in {" ", "\t", "\n"}

\* ---------------------------------------------------------------- claims

(* C1: the sequence check_practices returns has the length of the          *)
(* configured list and its order: the k-th record is the one made for the  *)
(* k-th configured (practice, url).  Every pass that ends appends exactly  *)
(* one record, after the records already there, whatever the agent gave    *)
(* (nothing, an empty array, one element, several).                        *)
C1_OneRecordPerPractice ==
    /\ [](/\ Len(results) = i
          /\ returned # None =>
                /\ returned.list = results
                /\ Len(returned.list) = Len(practices)
                /\ \A k \in 1..Len(practices) :
                      /\ returned.list[k].practice = practices[k].practice
                      /\ returned.list[k].url = practices[k].url)
    /\ [][\/ results' = results
          \/ /\ Len(results') = Len(results) + 1
             /\ SubSeq(results', 1, Len(results)) = results
             /\ results'[Len(results')].practice = practices[Len(results')].practice
             /\ results'[Len(results')].url = practices[Len(results')].url]_vars

\* The run returned after passes in which the agent gave nothing, an empty
\* array, one element and several elements.
C1_Witness ==
    /\ returned # None
    /\ Len(returned.list) = 4
    /\ payload.kind = "array"
    /\ Len(payload.items) >= 2
    /\ returned.list[1].status = "Unclear"
    /\ returned.list[2].status = "Accepting"

(* C2: in every state, every record of the result sequence whose status is *)
(* not Accepting has no contact_email, whatever the agent's payload        *)
(* carried.                                                                *)
C2_NoEmailUnlessAccepting ==
    \A k \in 1..Len(results) :
        results[k].status # "Accepting" => results[k].contact_email = None

\* A payload of status Not Accepting with an email was emitted without it.
C2_Witness ==
    /\ FromArray
    /\ Raw.status = "Not Accepting"
    /\ RawEmail = Str(<<"a", "@", "b">>)
    /\ LastRecord.status = "Not Accepting"
    /\ LastRecord.contact_email = None

(* C4: every emitted record carries the configured practice and url of the *)
(* list item it was made for, whatever the agent echoed, for parsed and    *)
(* for fallback records.                                                   *)
C4_ConfiguredIdentity ==
    /\ \A k \in 1..Len(results) :
          /\ results[k].practice = practices[k].practice
          /\ results[k].url = practices[k].url
    /\ Appended =>
          /\ LastRecord.practice = LastItem.practice
          /\ LastRecord.url = LastItem.url

\* After a fallback record, a payload echoing another practice and url was
\* emitted with the configured ones.
C4_Witness ==
    /\ FromArray
    /\ Len(results) >= 2
    /\ results[1].evidence = ""
    /\ Raw.practice # LastItem.practice
    /\ Raw.url # LastItem.url
    /\ LastRecord.practice = LastItem.practice
    /\ LastRecord.url = LastItem.url

(* C3: every record of the result sequence has a contact_email that is     *)
(* absent or a non-empty text with no blank at either end; so an empty or  *)
(* all-blank email of an Accepting payload is emitted as absent.           *)
C3_TrimmedOrAbsent ==
    \A k \in 1..Len(results) :
        LET email == results[k].contact_email
        IN  \/ email = None
            \/ /\ email.s # <<>>
               /\ email.s[1] \notin {" ", "\t", "\n"}
               /\ email.s[Len(email.s)] \notin {" ", "\t", "\n"}

(* C5: when the agent's final result is null, "" or "[]", the pass does    *)
(* not fail and its record is the fallback: the configured practice and    *)
(* url, status Unclear, evidence "", no contact_email, checked_at stamped. *)
(* The fallback is made in this case only: never when the pass failed,     *)
(* never from a non-empty array.                                           *)
C5_EmptyResultFallback ==
    /\ (pc # "await" /\ EmptyResult) =>
          /\ pc # "failed"
          /\ synthesized
          /\ LastRecord =
               [practice |-> LastItem.practice, url |-> LastItem.url,
                status |-> "Unclear", evidence |-> "", contact_email |-> None,
                checked_at |-> LastRecord.checked_at]
          /\ LastRecord.checked_at # None
    /\ synthesized => (Appended /\ EmptyResult)

\* The agent's final result was "" and the fallback record was appended.
C5_Witness ==
    /\ pc = "loop"
    /\ payload = EmptyText
    /\ synthesized
    /\ LastRecord.status = "Unclear"
    /\ LastRecord.evidence = ""

(* C6: a pass whose payload is malformed (no JSON, no array, an element    *)
(* without a required key or with a status outside the Literal) ends the   *)
(* run in failure, as does a failure of the session or of the agent run.   *)
(* A failed run appended no record for the failing practice, started no    *)
(* session and no agent run for a later one, returns nothing, and takes no *)
(* further step.                                                           *)
C6_FatalAbort ==
    /\ [](/\ (\/ payload.kind \in {"notjson", "notarray"}
              \/ /\ payload.kind = "array"
                 /\ \E k \in 1..Len(payload.items) :
                       \/ ~({"practice", "url", "status", "evidence"}
                              \subseteq DOMAIN payload.items[k])
                       \/ payload.items[k].status
                            \notin {"Accepting", "Not Accepting", "Unclear"})
             => pc = "failed"
          /\ pc = "failed" =>
                /\ returned = None
                /\ Len(results) = i
                /\ i < Len(practices)
                /\ sessions \subseteq 1..(i + 1)
                /\ runs \subseteq 1..(i + 1))
    /\ [][pc # "failed"]_vars

\* The third practice's payload had a status outside the Literal: the run
\* failed with two records computed and nothing returned.
C6_Witness ==
    /\ pc = "failed"
    /\ payload.kind = "array"
    /\ Len(payload.items) = 1
    /\ RequiredFields \subseteq DOMAIN payload.items[1]
    /\ payload.items[1].status = "Pending"
    /\ Len(results) = 2
    /\ returned = None

\* The payload is an array of objects that carry the four required keys.
WellShaped ==
    /\ pc # "await"
    /\ payload.kind = "array"
    /\ payload.items # <<>>
    /\ \A k \in 1..Len(payload.items) :
          {"practice", "url", "status", "evidence"} \subseteq DOMAIN payload.items[k]

(* C7 as stated: the status strings the validator accepts are exactly      *)
(* Accepting, NotAccepting, Unclear, and every emitted status is one of    *)
(* them.                                                                   *)
C7_AsStated ==
    /\ WellShaped =>
          (pc # "failed" <=>
             \A k \in 1..Len(payload.items) :
                payload.items[k].status \in {"Accepting", "NotAccepting", "Unclear"})
    /\ \A k \in 1..Len(results) :
          results[k].status \in {"Accepting", "NotAccepting", "Unclear"}

(* C7 amended: the status strings the validator accepts are exactly        *)
(* "Accepting", "Not Accepting" (with a blank) and "Unclear"; every other  *)
(* string, "NotAccepting" among them, is a validation failure; every       *)
(* emitted status is one of the three.                                     *)
C7_ClosedEnum ==
    /\ WellShaped =>
          (pc # "failed" <=>
             \A k \in 1..Len(payload.items) :
                payload.items[k].status \in {"Accepting", "Not Accepting", "Unclear"})
    /\ \A k \in 1..Len(results) :
          results[k].status \in {"Accepting", "Not Accepting", "Unclear"}

\* A payload of status "NotAccepting" was rejected after one of status
\* "Not Accepting" was emitted.
C7_Witness ==
    /\ WellShaped
    /\ pc = "failed"
    /\ Len(payload.items) = 1
    /\ payload.items[1].status = "NotAccepting"
    /\ Len(results) = 1
    /\ results[1].status = "Not Accepting"

(* C8 as stated: every emitted record has a contact_email if and only if   *)
(* its status is Accepting.                                                *)
C8_AsStated ==
    \A k \in 1..Len(results) :
        results[k].contact_email # None <=> results[k].status = "Accepting"

(* C8 amended: an emitted record has a contact_email only if its status is *)
(* Accepting and the agent's payload carried one; an Accepting record      *)
(* whose payload email is null, not there, or blanks only is emitted with  *)
(* no contact_email.                                                       *)
C8_EmailOnlyIfAccepting ==
    /\ \A k \in 1..Len(results) :
          results[k].contact_email # None => results[k].status = "Accepting"
    /\ FromArray =>
          /\ LastRecord.contact_email # None => RawEmail # None
          /\ (/\ Raw.status = "Accepting"
              /\ \/ RawEmail = None
                 \/ (RawEmail.s # <<>> /\ AllBlank(RawEmail.s)))
             => LastRecord.contact_email = None

\* An Accepting payload with a null email and one with a blank email were
\* emitted as Accepting records with no contact_email.
C8_Witness ==
    /\ FromArray
    /\ Len(results) = 2
    /\ Raw.status = "Accepting"
    /\ RawEmail = Str(<<" ">>)
    /\ LastRecord.status = "Accepting"
    /\ LastRecord.contact_email = None
    /\ results[1].status = "Accepting"
    /\ results[1].contact_email = None

(* C9: every record of the result sequence has a checked_at, whatever the  *)
(* payload carried; it is the clock reading of the normaliser for that     *)
(* record, at or after the start of the run, and with a non-decreasing     *)
(* clock the readings are non-decreasing in output order.                  *)
C9_Stamped ==
    /\ \A k \in 1..Len(results) :
          /\ results[k].checked_at # None
          /\ InstantOf(k) >= start
          /\ k > 1 => InstantOf(k - 1) <= InstantOf(k)
    /\ Appended => InstantOf(Len(results)) = now

\* A payload carrying a checked_at of its own was stamped, later than the
\* record before it.
C9_Witness ==
    /\ FromArray
    /\ Len(results) >= 2
    /\ "checked_at" \in DOMAIN Raw
    /\ Raw.checked_at # None
    /\ LastRecord.checked_at # Raw.checked_at
    /\ InstantOf(Len(results) - 1) < InstantOf(Len(results))

(* C10: a pass whose payload is a non-empty array of valid records appends *)
(* one record made from the first element alone: its status and evidence   *)
(* are the first element's, its practice and url the configured ones, its  *)
(* contact_email nothing or a part of the first element's, its checked_at  *)
(* the clock reading; the records of the other practices are untouched.    *)
C10_FirstElementOnly ==
    [][(pc = "await" /\ pc' = "loop" /\ payload'.items # <<>>) =>
          LET first == payload'.items[1]
              item == practices[i + 1]
              rec == results'[Len(results')]
          IN  /\ Len(results') = Len(results) + 1
              /\ SubSeq(results', 1, Len(results)) = results
              /\ rec.status = first.status
              /\ rec.evidence = first.evidence
              /\ rec.practice = item.practice
              /\ rec.url = item.url
              /\ rec.checked_at = Str([instant |-> now', offset |-> "Z"])
              /\ \/ rec.contact_email = None
                 \/ /\ "contact_email" \in DOMAIN first
                    /\ first.contact_email # None
                    /\ \/ rec.contact_email = first.contact_email
                       \/ \E a, b \in 1..Len(first.contact_email.s) :
                             rec.contact_email.s = SubSeq(first.contact_email.s, a, b)]_vars

\* An array of two valid records was emitted as the first of them.
C10_Witness ==
    /\ FromArray
    /\ Len(payload.items) >= 2
    /\ Raw.status = "Unclear"
    /\ payload.items[2].status = "Accepting"
    /\ payload.items[2].evidence = "extra"
    /\ LastRecord.status = "Unclear"
    /\ LastRecord.evidence = "snippet"
    /\ LastRecord.contact_email = None

====
